---- MODULE Spec2Model ----
(***************************************************************************)
(* Allocation simulation core of grain-route: the two allocators of        *)
(* Server/src/services/simulationService.js (allocateRegular, allocateML,  *)
(* as listed in Server/NEXT_STEPS.md) and the comparison that starts both  *)
(* on one fetched snapshot (compareSimulations / testComparison).          *)
(*                                                                         *)
(* Heap model.  A batch is a JavaScript object; `[...batches]` copies the  *)
(* array, not the objects.  The objects' only mutable field is             *)
(* quantity_kg, held in the variable quantity_kg (batch index -> current   *)
(* value of the field of that object).  `batches` holds the fields as      *)
(* fetched, so batches[b].quantity_kg is the quantity in the snapshot.     *)
(*                                                                         *)
(* Scheduling model.  JavaScript is run-to-completion: the body of an      *)
(* async function runs synchronously up to its first await.                *)
(* allocateRegular has no await, so Promise.all([allocateRegular(..),      *)
(* allocateML(..)]) runs the whole regular run, then allocateML up to      *)
(* `await axios.post`, and the rest of allocateML after the forecast call  *)
(* settles.  Each loop iteration is one action so that every prefix of a   *)
(* run is a state.                                                         *)
(*                                                                         *)
(* Units.  Time is in ticks of 15 minutes, distances in km, freshness in   *)
(* sixteenths of a percent, scores as integers (see scoreOf).              *)
(***************************************************************************)
EXTENDS Integers, Sequences, FiniteSets, TLC

VARIABLES
    requests,      \* snapshot: Seq of [_id, requesterNode, items]
    batches,       \* snapshot: Seq of batch records as fetched
    warehouses,    \* snapshot: Seq of [_id, location]
    ngos,          \* snapshot: Seq of [_id, location]
    quantity_kg,   \* heap: current quantity_kg field of each batch object
    run,           \* the two calls of the comparison: "regular" and "ml"
    forecast,      \* state of the axios.post of allocateML
    report,        \* the comparison's response, <<>> until it is sent
    reading,       \* the seed script's freshness computation: inputs and samples
    transport      \* the mock transport service: its clock and its answers

vars == <<requests, batches, warehouses, ngos, quantity_kg, run, forecast, report,
          reading, transport>>

snapshotVars == <<requests, batches, warehouses, ngos>>

----------------------------------------------------------------------------
(* Bounds of the model *)

MaxQty == 2
MaxRequired == 3

(* Program constants *)

preferredMinDeliveredFreshnessPct == 55
relaxedMinDeliveredFreshnessPct == 25
minRemainingBufferHours == 2
avgSpeedKmh == 40
breakIntervalHours == 4
DefaultFreshness == 100
PriorityCount == 3
ScoreDistanceRangeKm == 1000
FreshnessWeight == 6
DistanceWeight == 4
BoostNum == 12
BoostDen == 10
hardMaxDistanceKm == 450
topKWarehouses == 8

(* Units: a tick is 15 minutes, a freshness unit is 1/16 percent *)

Hours(h) == 4 * h

HalfHours(n) == 2 * n

Pct(p) == 16 * p

(* The universe of the bounded snapshots *)

BatchIds == {1, 2}
FoodTypes == {"rice", "wheat"}
WarehouseIds == <<"wA", "wB">>
NgoIds == <<"ngo">>
Locations == {<<10, 10>>, <<10, 80>>, <<80, 10>>, <<10, 500>>}
dispatchTime == Hours(100)
ShelfLife == Hours(100)
(* Manufacture times: 100 h before dispatch (expired, stored freshness 0), *)
(* 50 h before (stored 50 %) and 10 h before (stored 90 %)                 *)
ManufactureTimes == {Hours(0), Hours(50), Hours(90)}

----------------------------------------------------------------------------
(* Generic helpers *)

Min(a, b) == IF a <= b THEN a ELSE b

Max(a, b) == IF a >= b THEN a ELSE b

Abs(a) == IF a >= 0 THEN a ELSE 0 - a

RECURSIVE SumSeq(_)
SumSeq(s) == IF s = <<>> THEN 0 ELSE Head(s) + SumSeq(Tail(s))

RECURSIVE Factorial(_)
Factorial(n) == IF n <= 1 THEN 1 ELSE n * Factorial(n - 1)

Range(s) == {s[i] : i \in DOMAIN s}

(* Array.prototype.find: the first element satisfying the test, here the   *)
(* node with the given _id; <<>> stands for undefined.                     *)
findNode(nodes, id) ==
    IF \E i \in DOMAIN nodes : nodes[i]._id = id
    THEN nodes[CHOOSE i \in DOMAIN nodes :
                 nodes[i]._id = id /\ \A j \in 1..(i - 1) : nodes[j]._id # id]
    ELSE <<>>

(* Array.prototype.findIndex: first index of the element *)
findIndex(s, x) ==
    CHOOSE i \in DOMAIN s : s[i] = x /\ \A j \in 1..(i - 1) : s[j] # x

(* Array.prototype.splice(idx, 1) *)
splice(s, idx) == [i \in 1..(Len(s) - 1) |-> IF i < idx THEN s[i] ELSE s[i + 1]]

(* Array.prototype.sort is stable: x, the last element, is inserted after  *)
(* every element that does not compare greater.  key maps elements to      *)
(* integers; the order is ascending in key.                                *)
RECURSIVE InsertAsc(_, _, _)
InsertAsc(s, x, key) ==
    IF s = <<>> THEN <<x>>
    ELSE IF key[x] < key[Head(s)] THEN <<x>> \o s
    ELSE <<Head(s)>> \o InsertAsc(Tail(s), x, key)

RECURSIVE SortAsc(_, _)
SortAsc(s, key) ==
    IF s = <<>> THEN <<>>
    ELSE InsertAsc(SortAsc(SubSeq(s, 1, Len(s) - 1), key), s[Len(s)], key)

----------------------------------------------------------------------------
(* Geometry, transport time and freshness *)

(* Distance between two locations.  Locations are points of a line, in km  *)
(* from the requester; the great-circle formula itself is not modelled.    *)
haversineDistanceKm(a, b) == Abs(a - b)

(* estimateTravelHours, in ticks: distanceKm / 40 hours plus half an hour  *)
(* of break per full 4 hours.                                              *)
estimateTravelHours(distanceKm) ==
    LET baseHours == (Hours(1) * distanceKm) \div avgSpeedKmh
    IN  baseHours + HalfHours(baseHours \div Hours(breakIntervalHours))

(* remainingShelfLifeHours: (manufacture + shelf life) - now, in ticks *)
remainingShelfLifeHours(b, now) == (b.manufacture_date + b.shelf_life_hours) - now

(* calculateFreshnessPct at 25 C: tempFactor = 1 + (25-20)/10*0.5 = 5/4;   *)
(* max(0, 100 - elapsed/shelfLife*100*tempFactor), in freshness units.     *)
calculateFreshnessPct(b, atTime) ==
    LET elapsed == Max(0, atTime - b.manufacture_date)
    IN  Max(0, Pct(100) - (Pct(100) * elapsed * 5) \div (b.shelf_life_hours * 4))

(* The freshnessPct a seed script stores on a batch: whole percent,        *)
(* 100 at manufacture and 0 at expiry, no temperature factor.              *)
seedFreshnessPct(manufacture_date, shelf_life_hours) ==
    Max(0, Min(100, 100 - (Max(0, dispatchTime - manufacture_date) * 100) \div shelf_life_hours))

----------------------------------------------------------------------------
(* The state of one allocator call.  st is a record                        *)
(*   ri, ii        position of the two for loops (request, item)           *)
(*   unusedBatches the call's own array of batch references                *)
(*   qty           the heap: quantity_kg of every batch object             *)
(*   allocations   the records pushed so far                               *)
(*   tiers         history: for each record, the eligibility tier that     *)
(*                 analyzeWarehouseOption gives the record's warehouse     *)
(*                 ("n/a" for records of the regular algorithm)            *)

null == <<>>

(* const unusedBatches = [...batches] *)
copyOfBatches == [i \in 1..Len(batches) |-> i]

(* b.freshnessPct || 100 *)
storedFreshness(b) == IF b.freshnessPct = 0 THEN DefaultFreshness ELSE b.freshnessPct

(* ngos.find((n) => n._id.toString() === request.requesterNode.toString()) *)
ngoNodeOf(request) == findNode(ngos, request.requesterNode)

distanceTo(ngoNode, warehouse) == haversineDistanceKm(ngoNode.location, warehouse.location)

(* The nearest-warehouse scan of allocateRegular: strict <, so the first   *)
(* warehouse of the list wins ties; null for an empty list.                *)
RECURSIVE nearestScan(_, _, _)
nearestScan(ngoNode, i, best) ==
    IF i > Len(warehouses) THEN best
    ELSE LET distance == distanceTo(ngoNode, warehouses[i])
         IN  IF best = null \/ distance < best.minDistance
             THEN nearestScan(ngoNode, i + 1,
                              [nearestWarehouse |-> warehouses[i], minDistance |-> distance])
             ELSE nearestScan(ngoNode, i + 1, best)

(* Mutant of nearestOf: `<=` in the scan, the last nearest warehouse wins *)
nearestOfLastSeen(ngoNode) ==
    IF warehouses = <<>> THEN null
    ELSE LET i == CHOOSE i \in DOMAIN warehouses :
                    /\ \A j \in DOMAIN warehouses :
                          distanceTo(ngoNode, warehouses[j]) >= distanceTo(ngoNode, warehouses[i])
                    /\ \A j \in (i + 1)..Len(warehouses) :
                          distanceTo(ngoNode, warehouses[j]) > distanceTo(ngoNode, warehouses[i])
         IN  [nearestWarehouse |-> warehouses[i],
              minDistance |-> distanceTo(ngoNode, warehouses[i])]

nearestOf(ngoNode) == nearestScan(ngoNode, 1, null)

(* Mutant of atWarehouse: the status is not tested *)
atWarehouseAnyStatus(b, foodType, warehouse) ==
    /\ batches[b].foodType = foodType
    /\ batches[b].currentNode = warehouse._id

(* Mutant of atWarehouse: an expiry gate in the filter *)
atWarehouseUnexpired(b, foodType, warehouse) ==
    /\ batches[b].foodType = foodType
    /\ batches[b].currentNode = warehouse._id
    /\ batches[b].status = "stored"
    /\ remainingShelfLifeHours(batches[b], dispatchTime) > 0

(* The filter shared by both allocators *)
atWarehouse(b, foodType, warehouse) ==
    /\ batches[b].foodType = foodType
    /\ batches[b].currentNode = warehouse._id
    /\ batches[b].status = "stored"

(* Mutant of availableRegular: the sort is left out *)
availableRegularUnsorted(unusedBatches, item, warehouse) ==
    SelectSeq(unusedBatches, LAMBDA b : atWarehouse(b, item.foodType, warehouse))

(* availableBatches of allocateRegular: oldest manufacture_date first *)
availableRegular(unusedBatches, item, warehouse) ==
    SortAsc(SelectSeq(unusedBatches, LAMBDA b : atWarehouse(b, item.foodType, warehouse)),
            [b \in BatchIds |-> batches[b].manufacture_date])

(* availableBatches of allocateML: highest stored freshnessPct first.  docs *)
(* are the batch documents whose freshnessPct the comparator reads.        *)
availableMLOf(docs, unusedBatches, item, warehouse) ==
    SortAsc(SelectSeq(unusedBatches, LAMBDA b : atWarehouse(b, item.foodType, warehouse)),
            [b \in BatchIds |-> 0 - storedFreshness(docs[b])])

availableML(unusedBatches, item, warehouse) ==
    availableMLOf(batches, unusedBatches, item, warehouse)

(* Mutant of allocatedQtyOf: the whole batch is taken, without the clamp *)
allocatedQtyUnclamped(quantity, remaining) == quantity

(* Math.min(batch.quantity_kg, remaining) *)
allocatedQtyOf(quantity, remaining) == Min(quantity, remaining)

(* allocatedQty >= batch.quantity_kg: the batch leaves the array *)
isExhausted(allocatedQty, quantity) == allocatedQty >= quantity

(* Mutant of reducedQty: the partial draw is not written back *)
reducedQtyForgotten(qty, batch, allocatedQty) == qty

(* unusedBatches[idx].quantity_kg -= allocatedQty: a write to the batch    *)
(* object, which the caller's array references too                         *)
reducedQty(qty, batch, allocatedQty) == [qty EXCEPT ![batch] = @ - allocatedQty]

(* Mutant of pushRecord: unshift instead of push *)
pushRecordFront(allocations, record) == <<record>> \o allocations

(* allocations.push(record) *)
pushRecord(allocations, record) == Append(allocations, record)

(* The draw loop, the same text in both allocators.  d is a record         *)
(* remaining, unusedBatches, qty, usedBatches.                             *)
RECURSIVE drawLoop(_, _)
drawLoop(avail, d) ==
    IF avail = <<>> \/ d.remaining <= 0 THEN d
    ELSE LET batch == Head(avail)
             allocatedQty == allocatedQtyOf(d.qty[batch], d.remaining)
             idx == findIndex(d.unusedBatches, batch)
         IN  drawLoop(Tail(avail),
               [remaining |-> d.remaining - allocatedQty,
                unusedBatches |-> IF isExhausted(allocatedQty, d.qty[batch])
                                  THEN splice(d.unusedBatches, idx)
                                  ELSE d.unusedBatches,
                qty |-> IF isExhausted(allocatedQty, d.qty[batch])
                        THEN d.qty
                        ELSE reducedQty(d.qty, batch, allocatedQty),
                usedBatches |-> Append(d.usedBatches,
                                  [batchId |-> batch,
                                   quantity |-> allocatedQty,
                                   freshness |-> storedFreshness(batches[batch])])])

drawFrom(avail, st, item) ==
    drawLoop(avail, [remaining |-> item.required_kg,
                     unusedBatches |-> st.unusedBatches,
                     qty |-> st.qty,
                     usedBatches |-> <<>>])

(* Advance the two loop counters after an item *)
afterItem(st, request) ==
    IF st.ii < Len(request.items) THEN [ri |-> st.ri, ii |-> st.ii + 1]
    ELSE [ri |-> st.ri + 1, ii |-> 1]

----------------------------------------------------------------------------
(* allocateRegular *)

(* `continue` of the request loop: requester not found, or no warehouse *)
regularSkips(request) ==
    IF ngoNodeOf(request) = null THEN TRUE
    ELSE nearestOf(ngoNodeOf(request)) = null

regularRecord(request, item, nearest, d) ==
    [requestId |-> request._id,
     foodType |-> item.foodType,
     required_kg |-> item.required_kg,
     allocated_kg |-> item.required_kg - d.remaining,
     warehouse |-> nearest.nearestWarehouse._id,
     distance_km |-> nearest.minDistance,
     batches |-> d.usedBatches,
     strategy |-> "regular"]

(* Mutant of regularSkipStep: the skipped request leaves a record *)
regularSkipLeavesRecord(st) ==
    [st EXCEPT !.ri = @ + 1, !.ii = 1,
               !.allocations = Append(@, [requestId |-> requests[st.ri]._id,
                                          foodType |-> requests[st.ri].items[1].foodType,
                                          required_kg |-> requests[st.ri].items[1].required_kg,
                                          allocated_kg |-> 0,
                                          warehouse |-> "none",
                                          distance_km |-> 0,
                                          batches |-> <<>>,
                                          strategy |-> "regular"]),
               !.tiers = Append(@, "n/a")]

(* Mutant of regularSkipStep: `break` instead of `continue` *)
regularSkipBreaks(st) == [st EXCEPT !.ri = Len(requests) + 1, !.ii = 1]

(* One iteration of the request loop that ends in `continue` *)
regularSkipStep(st) == [st EXCEPT !.ri = @ + 1, !.ii = 1]

(* One iteration of the item loop *)
regularItemStep(st) ==
    LET request == requests[st.ri]
        item == request.items[st.ii]
        nearest == nearestOf(ngoNodeOf(request))
        d == drawFrom(availableRegular(st.unusedBatches, item, nearest.nearestWarehouse),
                      st, item)
        next == afterItem(st, request)
    IN  [st EXCEPT
           !.ri = next.ri, !.ii = next.ii,
           !.unusedBatches = d.unusedBatches,
           !.qty = d.qty,
           !.allocations = pushRecord(@, regularRecord(request, item, nearest, d)),
           !.tiers = Append(@, "n/a")]

----------------------------------------------------------------------------
(* The eligibility analysis of the snapshot report (analyzeWarehouseOption) *)

(* Batches of the food type stored at the warehouse that outlive the trip  *)
(* by more than two hours, with their freshness at delivery.               *)
candidateBatches(warehouse, distanceKm, foodType, unusedBatches) ==
    LET travelHours == estimateTravelHours(distanceKm)
        minRemainingHoursRequired == travelHours + Hours(minRemainingBufferHours)
    IN  SelectSeq(unusedBatches, LAMBDA b :
            /\ atWarehouse(b, foodType, warehouse)
            /\ remainingShelfLifeHours(batches[b], dispatchTime) > minRemainingHoursRequired)

freshnessAtDelivery(b, distanceKm) ==
    calculateFreshnessPct(batches[b], dispatchTime + estimateTravelHours(distanceKm))

analyzeWarehouseOption(warehouse, distanceKm, foodType, unusedBatches) ==
    LET cands == candidateBatches(warehouse, distanceKm, foodType, unusedBatches)
    IN  [strictEligible |-> SelectSeq(cands, LAMBDA b :
            freshnessAtDelivery(b, distanceKm) >= Pct(preferredMinDeliveredFreshnessPct)),
         relaxedEligible |-> SelectSeq(cands, LAMBDA b :
            freshnessAtDelivery(b, distanceKm) >= Pct(relaxedMinDeliveredFreshnessPct))]

(* strict if some batch is strict-eligible, else relaxed if some batch is  *)
(* relaxed-eligible, else none                                             *)
tierOf(warehouse, distanceKm, foodType, unusedBatches) ==
    LET a == analyzeWarehouseOption(warehouse, distanceKm, foodType, unusedBatches)
    IN  IF a.strictEligible # <<>> THEN "strict"
        ELSE IF a.relaxedEligible # <<>> THEN "relaxed"
        ELSE "none"

----------------------------------------------------------------------------
(* allocateML *)

(* Object.entries(predictions).sort((a, b) => b[1] - a[1]).map(([id]) => id) *)
(* predictions is the sequence of the mapping's entries [id, demand].      *)
priorityWarehousesOf(predictions) ==
    LET sorted == SortAsc(predictions, [e \in Range(predictions) |-> 0 - e.demand])
    IN  [i \in 1..Len(sorted) |-> sorted[i].id]

(* priorityWarehouses.indexOf(id): 0-based position, -1 when absent *)
indexOf(s, x) == IF \E i \in DOMAIN s : s[i] = x THEN findIndex(s, x) - 1 ELSE 0 - 1

(* priorityWarehouses.indexOf(warehouse._id.toString()) < 3 *)
isPriority(priorityWarehouses, warehouse) ==
    indexOf(priorityWarehouses, warehouse._id) < PriorityCount

(* (avgFreshness / 100) * 0.6 + max(0, 1 - distance / 1000) * 0.4, times   *)
(* 1.2 for a priority warehouse.  The result is the score multiplied by    *)
(* 10 * 10 * 100 * 1000 * n!, n the number of batches, so that the average *)
(* over any number of batches and both factors stay integers.              *)
scoreOfDocs(docs, avail, distance, priority) ==
    LET L == Factorial(Len(batches))
        totalFreshness == SumSeq([i \in 1..Len(avail) |-> storedFreshness(docs[avail[i]])])
        score == FreshnessWeight * ScoreDistanceRangeKm * totalFreshness * (L \div Len(avail))
                 + DistanceWeight * 100 * L * Max(0, ScoreDistanceRangeKm - distance)
    IN  IF priority THEN BoostNum * score ELSE BoostDen * score

scoreOf(avail, distance, priority) == scoreOfDocs(batches, avail, distance, priority)

(* finalScore > bestScore, bestScore starting at -Infinity *)
beats(finalScore, best) == best = null \/ finalScore > best.bestScore

(* The warehouse loop of allocateML over the batch documents docs *)
RECURSIVE evaluateWarehousesOf(_, _, _, _, _, _, _)
evaluateWarehousesOf(docs, ngoNode, item, unusedBatches, priorityWarehouses, i, best) ==
    IF i > Len(warehouses) THEN best
    ELSE LET warehouse == warehouses[i]
             distance == distanceTo(ngoNode, warehouse)
             avail == availableMLOf(docs, unusedBatches, item, warehouse)
             finalScore == scoreOfDocs(docs, avail, distance,
                                       isPriority(priorityWarehouses, warehouse))
         IN  IF avail # <<>> /\ beats(finalScore, best)
             THEN evaluateWarehousesOf(docs, ngoNode, item, unusedBatches, priorityWarehouses,
                      i + 1,
                      [bestScore |-> finalScore, bestWarehouse |-> warehouse,
                       bestBatches |-> avail])
             ELSE evaluateWarehousesOf(docs, ngoNode, item, unusedBatches, priorityWarehouses,
                      i + 1, best)

evaluateWarehouses(ngoNode, item, unusedBatches, priorityWarehouses, i, best) ==
    evaluateWarehousesOf(batches, ngoNode, item, unusedBatches, priorityWarehouses, i, best)

bestOf(st, request, item) ==
    evaluateWarehouses(ngoNodeOf(request), item, st.unusedBatches, st.priorityWarehouses,
                       1, null)

(* predictions = response.data.predictions || {} *)
predictionsOf(response) ==
    IF response.hasPredictions THEN response.predictions ELSE <<>>

(* `continue` of the request loop of allocateML *)
mlSkips(request) == ngoNodeOf(request) = null

mlRecord(request, item, best, d) ==
    [requestId |-> request._id,
     foodType |-> item.foodType,
     required_kg |-> item.required_kg,
     allocated_kg |-> item.required_kg - d.remaining,
     warehouse |-> best.bestWarehouse._id,
     distance_km |-> distanceTo(ngoNodeOf(request), best.bestWarehouse),
     batches |-> d.usedBatches,
     strategy |-> "ml",
     mlScore |-> best.bestScore]

(* The records an item adds: none when no warehouse was chosen             *)
(* (`if (!bestWarehouse) continue`), else one.                             *)
mlPush(allocations, request, item, best, d) ==
    IF best = null THEN allocations
    ELSE pushRecord(allocations, mlRecord(request, item, best, d))

mlSkipStep(st) == [st EXCEPT !.ri = @ + 1, !.ii = 1]

(* One iteration of the item loop of allocateML *)
mlItemStep(st) ==
    LET request == requests[st.ri]
        item == request.items[st.ii]
        best == bestOf(st, request, item)
        d == drawFrom(IF best = null THEN <<>> ELSE best.bestBatches, st, item)
        next == afterItem(st, request)
    IN  [st EXCEPT
           !.ri = next.ri, !.ii = next.ii,
           !.unusedBatches = d.unusedBatches,
           !.qty = d.qty,
           !.allocations = mlPush(st.allocations, request, item, best, d),
           !.tiers = IF best = null THEN @
                     ELSE Append(@, tierOf(best.bestWarehouse,
                                     distanceTo(ngoNodeOf(request), best.bestWarehouse),
                                     item.foodType, st.unusedBatches))]

----------------------------------------------------------------------------
(* Whole runs as functions of the heap they start from *)

initialSt(qty, priorityWarehouses) ==
    [ri |-> 1, ii |-> 1,
     unusedBatches |-> copyOfBatches,
     qty |-> qty,
     allocations |-> <<>>,
     tiers |-> <<>>,
     priorityWarehouses |-> priorityWarehouses]

RECURSIVE runRegular(_)
runRegular(st) ==
    IF st.ri > Len(requests) THEN st
    ELSE IF regularSkips(requests[st.ri]) THEN runRegular(regularSkipStep(st))
    ELSE runRegular(regularItemStep(st))

RECURSIVE runML(_)
runML(st) ==
    IF st.ri > Len(requests) THEN st
    ELSE IF mlSkips(requests[st.ri]) THEN runML(mlSkipStep(st))
    ELSE runML(mlItemStep(st))

(* quantity_kg of every batch as fetched *)
snapshotQty == [b \in BatchIds |-> batches[b].quantity_kg]

----------------------------------------------------------------------------
(* JavaScript numbers of the metrics.  A value is a record: kind "number"  *)
(* with the exact fraction num / den (den > 0, lowest terms), or kind      *)
(* "NaN", "Infinity",                                                      *)
(* "-Infinity" (num, den unused).                                          *)

RECURSIVE gcd(_, _)
gcd(a, b) == IF b = 0 THEN a ELSE gcd(b, a % b)

(* The fraction n / d in lowest terms *)
number(n, d) ==
    LET g == gcd(Abs(n), d)
    IN  [kind |-> "number", num |-> n \div g, den |-> d \div g]

NaN == [kind |-> "NaN", num |-> 0, den |-> 1]

isNumber(x) == x.kind = "number"

(* x + y and x - y, for the finite values and NaN that the metrics add *)
jsAdd(x, y) ==
    IF isNumber(x) /\ isNumber(y)
    THEN number(x.num * y.den + y.num * x.den, x.den * y.den)
    ELSE NaN

jsSub(x, y) == jsAdd(x, [y EXCEPT !.num = 0 - @])

(* x / y: 0 / 0 is NaN, a non-zero number over 0 is +-Infinity *)
jsDiv(x, y) ==
    IF ~(isNumber(x) /\ isNumber(y)) THEN NaN
    ELSE IF y.num = 0
         THEN (IF x.num = 0 THEN NaN
               ELSE [kind |-> IF x.num > 0 THEN "Infinity" ELSE "-Infinity",
                     num |-> 0, den |-> 1])
    ELSE IF y.num > 0 THEN number(x.num * y.den, x.den * y.num)
    ELSE number(0 - x.num * y.den, 0 - x.den * y.num)

(* x * y, x <= y, Math.max and Math.min of finite numbers *)
jsMul(x, y) ==
    IF isNumber(x) /\ isNumber(y) THEN number(x.num * y.num, x.den * y.den) ELSE NaN

jsLe(x, y) == x.num * y.den <= y.num * x.den

jsMax(x, y) == IF jsLe(x, y) THEN y ELSE x

jsMin(x, y) == IF jsLe(x, y) THEN x ELSE y

(* x * 100 *)
jsTimes100(x) == IF isNumber(x) THEN number(x.num * 100, x.den) ELSE x

(* x || 0: NaN and 0 are falsy *)
jsOrZero(x) == IF x.kind = "NaN" \/ (isNumber(x) /\ x.num = 0) THEN number(0, 1) ELSE x

(* Math.round(x * 100) / 100: Math.round is floor(y + 1/2); the result is  *)
(* a whole number of hundredths.  NaN and the infinities pass through.     *)
jsRound2(x) ==
    IF isNumber(x) THEN number((200 * x.num + x.den) \div (2 * x.den), 100) ELSE x

(* Array.prototype.reduce((sum, a) => sum + f(a), initial), values being   *)
(* the f(a) in the order of the array                                      *)
RECURSIVE reduce(_, _)
reduce(values, initial) ==
    IF values = <<>> THEN initial
    ELSE reduce(Tail(values), jsAdd(initial, Head(values)))

(* The values f(a) of the elements of an array of records *)
freshnessOf(draws) == [i \in 1..Len(draws) |-> number(draws[i].freshness, 1)]

required_kgOf(allocations) ==
    [i \in 1..Len(allocations) |-> number(allocations[i].required_kg, 1)]

allocated_kgOf(allocations) ==
    [i \in 1..Len(allocations) |-> number(allocations[i].allocated_kg, 1)]

distance_kmOf(allocations) ==
    [i \in 1..Len(allocations) |-> number(allocations[i].distance_km, 1)]

----------------------------------------------------------------------------
(* compareSimulations: the metrics of a list of records *)

(* a.batches.reduce((s, b) => s + b.freshness, 0) / a.batches.length *)
batchAvg(a) ==
    jsDiv(reduce(freshnessOf(a.batches), number(0, 1)), number(Len(a.batches), 1))

batchAvgOf(allocations) == [i \in 1..Len(allocations) |-> batchAvg(allocations[i])]

calcMetrics(allocations) ==
    LET totalRequired == reduce(required_kgOf(allocations), number(0, 1))
        totalAllocated == reduce(allocated_kgOf(allocations), number(0, 1))
        fulfillmentRate == IF totalRequired.num > 0
                           THEN jsTimes100(jsDiv(totalAllocated, totalRequired))
                           ELSE number(0, 1)
        avgDistance == jsOrZero(jsDiv(
                          reduce(distance_kmOf(allocations), number(0, 1)),
                          number(Len(allocations), 1)))
        avgFreshness == jsOrZero(jsDiv(
                          reduce(batchAvgOf(allocations), number(0, 1)),
                          number(Len(allocations), 1)))
    IN  [totalRequests |-> Len(requests),
         totalRequired |-> totalRequired,
         totalAllocated |-> totalAllocated,
         fulfillmentRate |-> jsRound2(fulfillmentRate),
         avgDistance |-> jsRound2(avgDistance),
         avgFreshness |-> jsRound2(avgFreshness)]

(* ((regular.avgDistance - ml.avgDistance) / regular.avgDistance) * 100 *)
distanceReductionOf(regularMetrics, mlMetrics) ==
    jsTimes100(jsDiv(jsSub(regularMetrics.avgDistance, mlMetrics.avgDistance),
                     regularMetrics.avgDistance))

(* The response body: the metrics of both strategies and the improvements, *)
(* each improvement rounded to hundredths when it is printed               *)
reportOf(regularAllocations, mlAllocations) ==
    LET regularMetrics == calcMetrics(regularAllocations)
        mlMetrics == calcMetrics(mlAllocations)
    IN  [regular |-> regularMetrics,
         ml |-> mlMetrics,
         improvements |->
            [fulfillmentIncrease |->
                jsRound2(jsSub(mlMetrics.fulfillmentRate, regularMetrics.fulfillmentRate)),
             distanceReduction |->
                jsRound2(distanceReductionOf(regularMetrics, mlMetrics)),
             freshnessIncrease |->
                jsRound2(jsSub(mlMetrics.avgFreshness, regularMetrics.avgFreshness))]]

----------------------------------------------------------------------------
(* The bounded snapshots *)

Items(foods) == [foodType : foods, required_kg : 1..MaxRequired]

(* One request with two items, or two requests with one item each, any of *)
(* them from a requester that is not among the NGO nodes.  The items ask   *)
(* for rice; the second batch is of any food type.  What a request of an   *)
(* unknown requester asks for is never read: its item is one kg of rice.   *)
RequestLists ==
    {<<[_id |-> "r1", requesterNode |-> "ngo", items |-> <<i1, i2>>]>> :
        i1 \in Items({"rice"}), i2 \in Items({"rice"})}
    \cup
    {<<[_id |-> "r1", requesterNode |-> "ngo", items |-> <<i1>>],
       [_id |-> "r2", requesterNode |-> "ngo", items |-> <<i2>>]>> :
        i1 \in Items({"rice"}), i2 \in Items({"rice"})}
    \cup
    {<<[_id |-> "r1", requesterNode |-> n[1],
        items |-> <<IF n[1] = "ghost" THEN [i EXCEPT !.required_kg = 1] ELSE i>>],
       [_id |-> "r2", requesterNode |-> n[2],
        items |-> <<IF n[2] = "ghost" THEN [i EXCEPT !.required_kg = 1] ELSE i>>]>> :
        n \in {<<"ghost", "ngo">>, <<"ngo", "ghost">>, <<"ghost", "ghost">>},
        i \in Items({"rice"})}

BatchRecords(id, foods, times, quantities) ==
    {[_id |-> id, foodType |-> f, currentNode |-> w, status |-> "stored",
      quantity_kg |-> q, manufacture_date |-> m, shelf_life_hours |-> ShelfLife,
      freshnessPct |-> seedFreshnessPct(m, ShelfLife)] :
        f \in foods, w \in Range(WarehouseIds), q \in quantities, m \in times}

(* The first batch is rice, expired or the freshest; the second is not    *)
(* expired, so that the array order and the manufacture order agree in     *)
(* some snapshots and disagree in others.  A seeded batch has quantity_kg  *)
(* = Math.max(0, ..): the first batch may hold 0 kg.  The second batch may *)
(* also be a kilogram of wheat, or a kilogram of fresh rice on its way out.*)
BatchLists ==
    {<<b1, b2>> :
        b1 \in BatchRecords(1, {"rice"}, ManufactureTimes \ {Hours(50)}, 0..MaxQty),
        b2 \in BatchRecords(2, {"rice"}, ManufactureTimes \ {Hours(0)}, 1..MaxQty)
                \cup BatchRecords(2, FoodTypes \ {"rice"}, {Hours(50)}, {1})
                \cup {[b EXCEPT !.status = "in_transit"] :
                         b \in BatchRecords(2, {"rice"}, {Hours(90)}, {1})}}

(* The warehouses in the order the query returns them: by id, and for the *)
(* two warehouses at the same place also in the reverse order; or none    *)
WarehouseLists ==
    {[i \in 1..Len(WarehouseIds) |-> [_id |-> WarehouseIds[i], location |-> loc[i]]] :
        loc \in Locations}
    \cup {<<[_id |-> "wB", location |-> 10], [_id |-> "wA", location |-> 10]>>}
    \cup {<<>>}

(* The requester is the origin of the line of locations *)
NgoList == [i \in 1..Len(NgoIds) |-> [_id |-> NgoIds[i], location |-> 0]]

(* The forecast responses: the entries of response.data.predictions *)
PredictionChoices ==
    {<<[id |-> "wA", demand |-> 1], [id |-> "wB", demand |-> 2]>>,
     <<[id |-> "wB", demand |-> 2]>>}

(* The bodies the forecast service may answer with: response.data with a   *)
(* predictions mapping, or a body without one (predictions undefined)      *)
Responses ==
    {[hasPredictions |-> TRUE, predictions |-> p] : p \in PredictionChoices}
    \cup {[hasPredictions |-> FALSE, predictions |-> <<>>]}

----------------------------------------------------------------------------
(* The comparison: Promise.all([allocateRegular(..), allocateML(..)]) *)

Calls == {"regular", "ml"}

idleRun ==
    [pc |-> "idle", algo |-> "none", ri |-> 1, ii |-> 1, unusedBatches |-> <<>>,
     allocations |-> <<>>, tiers |-> <<>>, priorityWarehouses |-> <<>>,
     startQty |-> <<>>]

(* The rare shapes of a snapshot (no warehouse, a warehouse beyond the     *)
(* hard cap, an empty batch) come with items of one kilogram.              *)
plainSnapshot ==
    /\ warehouses # <<>>
    /\ \A w \in DOMAIN warehouses :
          distanceTo(NgoList[1], warehouses[w]) <= hardMaxDistanceKm
    /\ \A b \in BatchIds : batches[b].quantity_kg > 0

unitItems ==
    \A i \in DOMAIN requests :
        \A j \in DOMAIN requests[i].items : requests[i].items[j].required_kg = 1

Init ==
    /\ requests \in RequestLists
    /\ batches \in BatchLists
    /\ warehouses \in WarehouseLists
    /\ plainSnapshot \/ unitItems
    /\ ngos = NgoList
    /\ quantity_kg = [b \in BatchIds |-> batches[b].quantity_kg]
    /\ run = [c \in Calls |-> idleRun]
    /\ forecast = "none"
    /\ report = null
    /\ reading = null
    /\ transport = null

(* The allocator state of a call, and its write-back *)
stOf(c) ==
    [ri |-> run[c].ri, ii |-> run[c].ii,
     unusedBatches |-> run[c].unusedBatches,
     qty |-> quantity_kg,
     allocations |-> run[c].allocations,
     tiers |-> run[c].tiers,
     priorityWarehouses |-> run[c].priorityWarehouses]

Store(c, st) ==
    /\ quantity_kg' = st.qty
    /\ run' = [run EXCEPT ![c] = [@ EXCEPT !.ri = st.ri, !.ii = st.ii,
                                           !.unusedBatches = st.unusedBatches,
                                           !.allocations = st.allocations,
                                           !.tiers = st.tiers]]

(* Entry of an allocator body: allocations = [], unusedBatches = [...batches] *)
enter(c, algo, priorityWarehouses) ==
    [pc |-> "loop", algo |-> algo, ri |-> 1, ii |-> 1,
     unusedBatches |-> copyOfBatches,
     allocations |-> <<>>, tiers |-> <<>>,
     priorityWarehouses |-> priorityWarehouses,
     startQty |-> quantity_kg]

(* allocateRegular(requests, batches, warehouses, ngos) is called first *)
CallRegular ==
    /\ run["regular"].pc = "idle"
    /\ run' = [run EXCEPT !["regular"] = enter("regular", "regular", <<>>)]
    /\ UNCHANGED <<reading, transport, report, snapshotVars, quantity_kg, forecast>>

RegularSkipRequest(c) ==
    /\ run[c].pc = "loop" /\ run[c].algo = "regular"
    /\ run[c].ri <= Len(requests)
    /\ regularSkips(requests[run[c].ri])
    /\ Store(c, regularSkipStep(stOf(c)))
    /\ UNCHANGED <<reading, transport, report, snapshotVars, forecast>>

RegularItem(c) ==
    /\ run[c].pc = "loop" /\ run[c].algo = "regular"
    /\ run[c].ri <= Len(requests)
    /\ ~regularSkips(requests[run[c].ri])
    /\ Store(c, regularItemStep(stOf(c)))
    /\ UNCHANGED <<reading, transport, report, snapshotVars, forecast>>

(* return allocations *)
Return(c) ==
    /\ run[c].pc = "loop"
    /\ run[c].ri > Len(requests)
    /\ run' = [run EXCEPT ![c].pc = "done"]
    /\ UNCHANGED <<reading, transport, report, snapshotVars, quantity_kg, forecast>>

(* allocateML is called once allocateRegular has returned its promise; it  *)
(* copies the array and suspends at `await axios.post`.                    *)
CallML ==
    /\ run["regular"].pc = "done"
    /\ run["ml"].pc = "idle"
    /\ run' = [run EXCEPT !["ml"] = [enter("ml", "ml", <<>>) EXCEPT !.pc = "awaiting"]]
    /\ forecast' = "pending"
    /\ UNCHANGED <<reading, transport, report, snapshotVars, quantity_kg>>

(* Mutant of catchForecastError: the error is swallowed and the scoring    *)
(* loops run with no predictions                                           *)
catchKeepsScoring(c) == enter(c, "ml", <<>>)

(* catch (error) { return allocateRegular(requests, batches, ..) }: the    *)
(* call continues as a run of the regular algorithm from its entry         *)
catchForecastError(c) == enter(c, "regular", <<>>)

(* The forecast call throws: return allocateRegular(requests, batches, ..) *)
ForecastFails ==
    /\ run["ml"].pc = "awaiting"
    /\ forecast' = "failed"
    /\ run' = [run EXCEPT !["ml"] = catchForecastError("ml")]
    /\ UNCHANGED <<reading, transport, report, snapshotVars, quantity_kg>>

(* The forecast call resolves: with a predictions mapping ("ok"), or with  *)
(* a body that has none ("absent"), which `|| {}` turns into no priorities *)
ForecastResponds(response) ==
    /\ run["ml"].pc = "awaiting"
    /\ forecast' = IF response.hasPredictions THEN "ok" ELSE "absent"
    /\ run' = [run EXCEPT !["ml"] =
                 enter("ml", "ml", priorityWarehousesOf(predictionsOf(response)))]
    /\ UNCHANGED <<reading, transport, report, snapshotVars, quantity_kg>>

MLSkipRequest ==
    /\ run["ml"].pc = "loop" /\ run["ml"].algo = "ml"
    /\ run["ml"].ri <= Len(requests)
    /\ mlSkips(requests[run["ml"].ri])
    /\ Store("ml", mlSkipStep(stOf("ml")))
    /\ UNCHANGED <<reading, transport, report, snapshotVars, forecast>>

MLItem ==
    /\ run["ml"].pc = "loop" /\ run["ml"].algo = "ml"
    /\ run["ml"].ri <= Len(requests)
    /\ ~mlSkips(requests[run["ml"].ri])
    /\ Store("ml", mlItemStep(stOf("ml")))
    /\ UNCHANGED <<reading, transport, report, snapshotVars, forecast>>

(* Both promises have resolved: the metrics are computed and sent *)
Respond ==
    /\ run["regular"].pc = "done"
    /\ run["ml"].pc = "done"
    /\ report = null
    /\ report' = reportOf(run["regular"].allocations, run["ml"].allocations)
    /\ UNCHANGED <<reading, transport, snapshotVars, quantity_kg, run, forecast>>

Next ==
    \/ CallRegular
    \/ \E c \in Calls : RegularSkipRequest(c)
    \/ \E c \in Calls : RegularItem(c)
    \/ \E c \in Calls : Return(c)
    \/ CallML
    \/ ForecastFails
    \/ \E response \in Responses : ForecastResponds(response)
    \/ MLSkipRequest
    \/ MLItem
    \/ Respond

Spec == Init /\ [][Next]_vars

----------------------------------------------------------------------------
(* Vocabulary of the properties *)

(* Quantity a record draws from batch b, and a list of records in total *)
drawnInRecord(r, b) ==
    SumSeq([i \in 1..Len(r.batches) |->
              IF r.batches[i].batchId = b THEN r.batches[i].quantity ELSE 0])

drawnFrom(allocations, b) ==
    SumSeq([k \in 1..Len(allocations) |-> drawnInRecord(allocations[k], b)])

(* What is left of batch b in the pool of call c: a batch spliced out of   *)
(* unusedBatches is gone, whatever its object still says.                  *)
remainingIn(c, b) ==
    IF b \in Range(run[c].unusedBatches) THEN quantity_kg[b] ELSE 0

(* The heap still is as call c left it: no later call has drawn *)
heapIsOf(c) == c = "ml" \/ run["ml"].allocations = <<>>

(* The call is inside its loops or has just returned *)
observable(c) == run[c].pc = "loop" \/ (run[c].pc = "done" /\ heapIsOf(c))

resolved(request) == \E i \in DOMAIN ngos : ngos[i]._id = request.requesterNode

(* C1: in one run, after any prefix of processed items, what was drawn     *)
(* from a batch never exceeds its quantity at the start of the run, and    *)
(* remaining + drawn = starting quantity.                                  *)
PoolConservation ==
    \A c \in Calls : observable(c) =>
        \A b \in BatchIds :
            /\ drawnFrom(run[c].allocations, b) <= run[c].startQty[b]
            /\ remainingIn(c, b) + drawnFrom(run[c].allocations, b) = run[c].startQty[b]

(* A run of the predictive algorithm that has emptied one batch and taken  *)
(* part of another *)
PoolConservationWitness ==
    \E c \in Calls :
        /\ run[c].pc = "done" /\ run[c].algo = "ml"
        /\ \E b1, b2 \in BatchIds :
            /\ b1 \notin Range(run[c].unusedBatches)
            /\ drawnFrom(run[c].allocations, b1) > 0
            /\ b2 \in Range(run[c].unusedBatches)
            /\ drawnFrom(run[c].allocations, b2) > 0

(* C2: a run leaves every batch of the snapshot as it was fetched *)
SnapshotIsolation ==
    \A c \in Calls : run[c].pc = "done" => quantity_kg = snapshotQty

(* C3: every completed run of the regular algorithm over the snapshot      *)
(* returns the list that the first such run returns, which is the run      *)
(* over the batches as fetched.                                            *)
RegularDeterminism ==
    \A c \in Calls :
        (run[c].pc = "done" /\ run[c].algo = "regular") =>
            run[c].allocations = runRegular(initialSt(snapshotQty, <<>>)).allocations

(* C4: when the forecast call fails, allocateML returns the list that      *)
(* allocateRegular returned for the same snapshot                          *)
GracefulDegradation ==
    (forecast = "failed" /\ run["ml"].pc = "done") =>
        run["ml"].allocations = run["regular"].allocations

(* C5: in the comparison each strategy returns what it returns when it     *)
(* runs alone on the snapshot                                              *)
RunsIndependent ==
    /\ run["regular"].pc = "done" =>
         run["regular"].allocations = runRegular(initialSt(snapshotQty, <<>>)).allocations
    /\ (run["ml"].pc = "done" /\ forecast = "ok") =>
         run["ml"].allocations =
            runML(initialSt(snapshotQty, run["ml"].priorityWarehouses)).allocations
    /\ (run["ml"].pc = "done" /\ forecast = "failed") =>
         run["ml"].allocations = runRegular(initialSt(snapshotQty, <<>>)).allocations

(* C6: a batch drawn for a warehouse of the strict tier is at least 55 %   *)
(* fresh at delivery, one drawn for a warehouse of the relaxed tier at     *)
(* least 25 %                                                              *)
PredictiveEligibility ==
    \A k \in DOMAIN run["ml"].allocations :
        LET r == run["ml"].allocations[k]
            tier == run["ml"].tiers[k]
        IN  \A i \in DOMAIN r.batches :
              /\ tier = "strict" =>
                   freshnessAtDelivery(r.batches[i].batchId, r.distance_km)
                     >= Pct(preferredMinDeliveredFreshnessPct)
              /\ tier = "relaxed" =>
                   freshnessAtDelivery(r.batches[i].batchId, r.distance_km)
                     >= Pct(relaxedMinDeliveredFreshnessPct)

(* C7: every record has 0 <= allocated_kg <= required_kg and allocated_kg  *)
(* is the sum of the quantities of its batch draws                         *)
RecordQuantities ==
    \A c \in Calls : \A k \in DOMAIN run[c].allocations :
        LET r == run[c].allocations[k]
        IN  /\ 0 <= r.allocated_kg
            /\ r.allocated_kg <= r.required_kg
            /\ r.allocated_kg = SumSeq([i \in 1..Len(r.batches) |-> r.batches[i].quantity])

(* A record filled from two batches, and one that is only partly filled *)
RecordQuantitiesWitness ==
    \E c \in Calls : \E k, j \in DOMAIN run[c].allocations :
        /\ Len(run[c].allocations[k].batches) = 2
        /\ run[c].allocations[k].allocated_kg = run[c].allocations[k].required_kg
        /\ run[c].allocations[j].allocated_kg > 0
        /\ run[c].allocations[j].allocated_kg < run[c].allocations[j].required_kg

(* The items of the input, flattened in input order, as the key fields of *)
(* the record an item gives rise to                                        *)
itemKey(request, item) ==
    [requestId |-> request._id, foodType |-> item.foodType, required_kg |-> item.required_kg]

recordKey(r) ==
    [requestId |-> r.requestId, foodType |-> r.foodType, required_kg |-> r.required_kg]

RECURSIVE inputItemsFrom(_, _)
inputItemsFrom(i, onlyResolved) ==
    IF i > Len(requests) THEN <<>>
    ELSE (IF onlyResolved /\ ~resolved(requests[i]) THEN <<>>
          ELSE [k \in 1..Len(requests[i].items) |-> itemKey(requests[i], requests[i].items[k])])
         \o inputItemsFrom(i + 1, onlyResolved)

inputItems == inputItemsFrom(1, FALSE)

resolvedItems == inputItemsFrom(1, TRUE)

keysOf(allocations) == [k \in 1..Len(allocations) |-> recordKey(allocations[k])]

RECURSIVE IsSubseq(_, _)
IsSubseq(a, b) ==
    IF a = <<>> THEN TRUE
    ELSE IF b = <<>> THEN FALSE
    ELSE IF Head(a) = Head(b) THEN IsSubseq(Tail(a), Tail(b))
    ELSE IsSubseq(a, Tail(b))

(* What the pool of call c held for record k before it was served: the     *)
(* stored batches of the record's food type at the record's warehouse,     *)
(* less what the earlier records of the run drew                           *)
availableBefore(c, k) ==
    LET r == run[c].allocations[k]
        earlier == SubSeq(run[c].allocations, 1, k - 1)
    IN  SumSeq([b \in 1..Len(batches) |->
                  IF /\ batches[b].foodType = r.foodType
                     /\ batches[b].currentNode = r.warehouse
                     /\ batches[b].status = "stored"
                  THEN run[c].startQty[b] - drawnFrom(earlier, b)
                  ELSE 0])

(* C8: records appear in the input order of the (request, item) pairs,     *)
(* and every item is served from what the items before it left: it gets    *)
(* min(required, what the pool then holds for it), so of two items that    *)
(* compete for the same batches the earlier one is served first.           *)
InputOrderProcessing ==
    \A c \in Calls :
        /\ IsSubseq(keysOf(run[c].allocations), inputItems)
        /\ \A k \in DOMAIN run[c].allocations :
             run[c].allocations[k].allocated_kg
               = Min(run[c].allocations[k].required_kg, availableBefore(c, k))

(* Two different items competed: the first was served in full, the second  *)
(* was not, though the pool would have covered it had it come first         *)
InputOrderProcessingWitness ==
    \E c \in Calls :
        /\ run[c].pc = "done"
        /\ Len(run[c].allocations) = 2
        /\ LET r1 == run[c].allocations[1]
               r2 == run[c].allocations[2]
           IN  /\ recordKey(r1) # recordKey(r2)
               /\ r1.warehouse = r2.warehouse /\ r1.foodType = r2.foodType
               /\ r1.allocated_kg = r1.required_kg
               /\ r2.allocated_kg < r2.required_kg
               /\ r2.required_kg <= availableBefore(c, 1)

(* C9: a request whose requester is not among the NGO nodes gets no        *)
(* record and draws nothing (all that left the pool is in the records,     *)
(* which are of resolved requests), and the requests after it are still    *)
(* processed: given a warehouse, the regular algorithm returns one record  *)
(* per item of every resolved request, the predictive one a record for     *)
(* every such item for which the pool still holds a stored batch at some   *)
(* warehouse.                                                              *)
SilentDrop ==
    \A c \in Calls :
        /\ \A k \in DOMAIN run[c].allocations :
             \E i \in DOMAIN requests :
                /\ requests[i]._id = run[c].allocations[k].requestId
                /\ resolved(requests[i])
        /\ observable(c) =>
             \A b \in BatchIds :
                run[c].startQty[b] - remainingIn(c, b) = drawnFrom(run[c].allocations, b)
        /\ (run[c].pc = "done" /\ run[c].algo = "regular" /\ warehouses # <<>>) =>
             keysOf(run[c].allocations) = resolvedItems
        /\ (run[c].pc = "done" /\ run[c].algo = "ml") =>
             \A j \in DOMAIN resolvedItems :
                (\E b \in Range(run[c].unusedBatches) : \E w \in DOMAIN warehouses :
                    atWarehouse(b, resolvedItems[j].foodType, warehouses[w]))
                => \E k \in DOMAIN run[c].allocations :
                      recordKey(run[c].allocations[k]) = resolvedItems[j]

(* Both strategies have served the request that follows a dropped one *)
SilentDropWitness ==
    /\ Len(requests) = 2
    /\ ~resolved(requests[1])
    /\ \A c \in Calls :
        /\ run[c].pc = "done"
        /\ Len(run[c].allocations) = 1
        /\ run[c].allocations[1].requestId = requests[2]._id
        /\ run[c].allocations[1].allocated_kg > 0
    /\ run["ml"].algo = "ml"

(* C10: the predictive allocator returns exactly one record per item of    *)
(* every resolved request, a record with allocated_kg = 0 and no draws     *)
(* when no warehouse qualifies                                             *)
UnmetDemandRecorded ==
    (run["ml"].pc = "done" /\ run["ml"].algo = "ml") =>
        keysOf(run["ml"].allocations) = resolvedItems

(* C11: allocateML calls the forecast service once in a run, before it     *)
(* processes any item: the call is made from the state in which none was   *)
(* made, with no record yet, it settles once and is never made again; the  *)
(* item loops start only after it has settled; and when it failed, every   *)
(* record of the run is one of the regular algorithm.                      *)
WholeRunFallback ==
    /\ [][forecast' # forecast =>
            \/ /\ forecast = "none" /\ forecast' = "pending"
               /\ run'["ml"].allocations = <<>>
               /\ run'["ml"].ri = 1 /\ run'["ml"].ii = 1
            \/ /\ forecast = "pending"
               /\ forecast' \in {"ok", "absent", "failed"}
               /\ run'["ml"].allocations = <<>>]_vars
    /\ [](run["ml"].pc \in {"loop", "done"} => forecast \in {"ok", "absent", "failed"})
    /\ [](forecast = "failed" =>
            \A k \in DOMAIN run["ml"].allocations :
                run["ml"].allocations[k].strategy = "regular")

(* The forecast call failed and the run went on to return two records, the *)
(* first of them with a draw                                               *)
WholeRunFallbackWitness ==
    /\ forecast = "failed"
    /\ run["ml"].pc = "done"
    /\ Len(run["ml"].allocations) = 2
    /\ run["ml"].allocations[1].allocated_kg > 0

(* C12: a forecast response without a predictions mapping makes the run    *)
(* fall back to the regular algorithm, as a failed call does: every record *)
(* of the run is one of the regular algorithm.                             *)
MalformedForecastFallsBack ==
    forecast = "absent" =>
        \A k \in DOMAIN run["ml"].allocations :
            run["ml"].allocations[k].strategy = "regular"

(* A stored batch whose shelf life has run out at dispatch *)
expired(b) == remainingShelfLifeHours(batches[b], dispatchTime) <= 0

(* The stored batches of a food type at a warehouse, as fetched *)
storedAt(warehouse, foodType) == {b \in BatchIds : atWarehouse(b, foodType, warehouse)}

(* Warehouse B holds fresh batches of the food type, enough for the item:  *)
(* every stored batch of the type is at least 55 % fresh at delivery.      *)
holdsFreshEnough(B, ngoNode, item) ==
    LET held == storedAt(B, item.foodType)
        d == distanceTo(ngoNode, B)
    IN  /\ held # {}
        /\ \A b \in held :
              /\ remainingShelfLifeHours(batches[b], dispatchTime)
                    > estimateTravelHours(d) + Hours(minRemainingBufferHours)
              /\ freshnessAtDelivery(b, d) >= Pct(preferredMinDeliveredFreshnessPct)
        /\ SumSeq([b \in 1..Len(batches) |->
                     IF b \in held THEN batches[b].quantity_kg ELSE 0]) >= item.required_kg

(* C13: the first item of the input comes from a requester whose nearest   *)
(* warehouse A holds only expired batches of the food type, while a        *)
(* farther warehouse B within the distance cap holds fresh batches, enough *)
(* for the item.  Then the record of allocateRegular names A and the       *)
(* record of allocateML names B with allocated_kg = required_kg.           *)
CanonicalDivergence ==
    (/\ run["regular"].pc = "done" /\ run["ml"].pc = "done" /\ forecast = "ok"
     /\ resolved(requests[1])) =>
        LET ngoNode == ngoNodeOf(requests[1])
            item == requests[1].items[1]
            A == nearestOf(ngoNode).nearestWarehouse
        IN  \A w \in DOMAIN warehouses :
              LET B == warehouses[w]
              IN  (/\ storedAt(A, item.foodType) # {}
                   /\ \A b \in storedAt(A, item.foodType) : expired(b)
                   /\ distanceTo(ngoNode, B) > distanceTo(ngoNode, A)
                   /\ distanceTo(ngoNode, B) <= hardMaxDistanceKm
                   /\ holdsFreshEnough(B, ngoNode, item)) =>
                     /\ run["regular"].allocations[1].warehouse = A._id
                     /\ run["ml"].allocations # <<>>
                     /\ run["ml"].allocations[1].warehouse = B._id
                     /\ run["ml"].allocations[1].allocated_kg = item.required_kg

(* The records of a list that have at least one batch draw *)
withDraws(allocations) == SelectSeq(allocations, LAMBDA a : a.batches # <<>>)

(* C14: the avgFreshness of a strategy in the report is the mean, over its *)
(* records that have at least one draw, of the record's mean draw          *)
(* freshness (to hundredths); records without draws do not count.          *)
AvgFreshnessMetric ==
    report # null =>
        \A strategy \in Calls :
            LET drawn == withDraws(run[strategy].allocations)
            IN  drawn # <<>> =>
                  report[strategy].avgFreshness =
                     jsRound2(jsDiv(reduce(batchAvgOf(drawn), number(0, 1)),
                                    number(Len(drawn), 1)))

(* C15: when the regular strategy's average distance is 0 the report       *)
(* gives null as the distance reduction                                    *)
DistanceReductionGuard ==
    (report # null /\ report.regular.avgDistance.num = 0) =>
        report.improvements.distanceReduction.kind = "null"

(* The request a record belongs to, and the records of the regular         *)
(* algorithm in the list of call c                                         *)
requestOf(r) == requests[CHOOSE i \in DOMAIN requests : requests[i]._id = r.requestId]

regularRecords(c) ==
    {k \in DOMAIN run[c].allocations : run[c].allocations[k].strategy = "regular"}

warehouseIndex(id) == CHOOSE i \in DOMAIN warehouses : warehouses[i]._id = id

(* C16: the warehouse of every record of allocateRegular is at minimal     *)
(* distance from the requester over all warehouses, every warehouse before *)
(* it in the input list is strictly farther, and the record carries that   *)
(* distance.                                                               *)
RegularWarehouseChoice ==
    \A c \in Calls : \A k \in regularRecords(c) :
        LET r == run[c].allocations[k]
            ngoNode == ngoNodeOf(requestOf(r))
            i == warehouseIndex(r.warehouse)
            d == distanceTo(ngoNode, warehouses[i])
        IN  /\ \A j \in DOMAIN warehouses : distanceTo(ngoNode, warehouses[j]) >= d
            /\ \A j \in 1..(i - 1) : distanceTo(ngoNode, warehouses[j]) > d
            /\ r.distance_km = d

(* Two warehouses at the same distance, listed against the order of their  *)
(* ids, and a record that names the first listed                           *)
RegularWarehouseChoiceWitness ==
    /\ run["regular"].pc = "done"
    /\ run["regular"].allocations # <<>>
    /\ warehouses[1]._id = "wB"
    /\ warehouses[1].location = warehouses[2].location
    /\ run["regular"].allocations[1].warehouse = "wB"
    /\ run["regular"].allocations[1].allocated_kg > 0

(* C17: in every record of allocateRegular the draws are in ascending      *)
(* manufacture-time order, and when a batch is drawn, every stored batch   *)
(* of the food type at the record's warehouse with a strictly earlier      *)
(* manufacture time is used up: the records up to this one have drawn all  *)
(* that the run's pool held of it.                                         *)
RegularFIFO ==
    \A c \in Calls : \A k \in regularRecords(c) :
        LET r == run[c].allocations[k]
            upTo == SubSeq(run[c].allocations, 1, k)
        IN  /\ \A i, j \in DOMAIN r.batches :
                  i < j => batches[r.batches[i].batchId].manufacture_date
                             <= batches[r.batches[j].batchId].manufacture_date
            /\ \A i \in DOMAIN r.batches : \A b \in BatchIds :
                  (/\ batches[b].foodType = r.foodType
                   /\ batches[b].currentNode = r.warehouse
                   /\ batches[b].status = "stored"
                   /\ batches[b].manufacture_date
                        < batches[r.batches[i].batchId].manufacture_date)
                  => drawnFrom(upTo, b) = run[c].startQty[b]

(* A record that draws the second batch of the array before the first,     *)
(* the second being the older one                                          *)
RegularFIFOWitness ==
    \E c \in Calls : \E k \in regularRecords(c) :
        LET r == run[c].allocations[k]
        IN  /\ Len(r.batches) = 2
            /\ r.batches[1].batchId = 2 /\ r.batches[2].batchId = 1
            /\ batches[2].manufacture_date < batches[1].manufacture_date

(* C18: every record of allocateRegular names the warehouse nearest to the *)
(* requester, draws only stored batches of the item's food type at that    *)
(* warehouse, and allocates min(required_kg, all that the pool then holds  *)
(* of such batches), expired batches included.                             *)
RegularGreedyAmount ==
    \A c \in Calls : \A k \in regularRecords(c) :
        LET r == run[c].allocations[k]
            nearest == nearestOf(ngoNodeOf(requestOf(r))).nearestWarehouse
        IN  /\ r.warehouse = nearest._id
            /\ \A i \in DOMAIN r.batches :
                  /\ batches[r.batches[i].batchId].currentNode = nearest._id
                  /\ batches[r.batches[i].batchId].foodType = r.foodType
                  /\ batches[r.batches[i].batchId].status = "stored"
            /\ r.allocated_kg = Min(r.required_kg, availableBefore(c, k))

(* A record filled from an expired batch and a fresh one *)
RegularGreedyAmountWitness ==
    \E c \in Calls : \E k \in regularRecords(c) :
        LET r == run[c].allocations[k]
        IN  /\ r.allocated_kg = r.required_kg
            /\ Len(r.batches) = 2
            /\ expired(r.batches[1].batchId)
            /\ ~expired(r.batches[2].batchId)

(* The first record of a run of allocateML is chosen over the pool as it   *)
(* is at entry, whatever items were passed over before it.  For that       *)
(* record: the item's requester, and for a warehouse its distance, the     *)
(* tier analyzeWarehouseOption gives it and the score of the warehouse     *)
(* loop.                                                                   *)
firstML == run["ml"].allocations[1]

firstDistance(w) == distanceTo(ngoNodeOf(requestOf(firstML)), warehouses[w])

firstTier(w) ==
    tierOf(warehouses[w], firstDistance(w), firstML.foodType, copyOfBatches)

firstScore(w) ==
    scoreOf(availableML(copyOfBatches, firstML, warehouses[w]), firstDistance(w),
            isPriority(run["ml"].priorityWarehouses, warehouses[w]))

(* The candidate warehouses: within the hard distance cap *)
candidateWarehouses == {w \in DOMAIN warehouses : firstDistance(w) <= hardMaxDistanceKm}

(* C19: when some candidate warehouse has a strict-eligible batch for the  *)
(* item, the warehouse of the record is one with a strict-eligible batch.  *)
StrictTierPreferred ==
    (run["ml"].algo = "ml" /\ run["ml"].allocations # <<>>) =>
        ((\E w \in candidateWarehouses : firstTier(w) = "strict")
            => firstTier(warehouseIndex(firstML.warehouse)) = "strict")

(* The tier the claim prefers: strict if any candidate is strict, else     *)
(* relaxed                                                                 *)
preferredTier ==
    IF \E w \in candidateWarehouses : firstTier(w) = "strict" THEN "strict" ELSE "relaxed"

(* Warehouse ids in ascending order are the entries of WarehouseIds *)
idRank(id) == CHOOSE i \in DOMAIN WarehouseIds : WarehouseIds[i] = id

(* w comes before v: higher score, then smaller distance, then smaller id *)
ranksBefore(w, v) ==
    \/ firstScore(w) > firstScore(v)
    \/ /\ firstScore(w) = firstScore(v)
       /\ \/ firstDistance(w) < firstDistance(v)
          \/ /\ firstDistance(w) = firstDistance(v)
             /\ idRank(warehouses[w]._id) < idRank(warehouses[v]._id)

(* C20: when the warehouse of the record is of the preferred tier, it      *)
(* comes before every other candidate of that tier: its score is maximal,  *)
(* among equal scores its distance is smallest, among those its id is      *)
(* smallest, whatever the order of the warehouse list.                     *)
PredictiveWarehouseChoice ==
    (run["ml"].algo = "ml" /\ run["ml"].allocations # <<>>) =>
        LET chosen == warehouseIndex(firstML.warehouse)
        IN  firstTier(chosen) = preferredTier =>
              \A v \in candidateWarehouses \ {chosen} :
                  firstTier(v) = preferredTier => ranksBefore(chosen, v)

----------------------------------------------------------------------------
(* Forecast boost, shelf-life buffer, bounded search, freshest-first draw *)

(* The warehouse is one of the three highest predicted-demand warehouses   *)
amongTopThree(priorityWarehouses, id) ==
    \E i \in 1..Min(PriorityCount, Len(priorityWarehouses)) : priorityWarehouses[i] = id

(* C21: the score of the record's warehouse is multiplied by 1.2 exactly   *)
(* when the warehouse is among the three highest predicted-demand          *)
(* warehouses; a warehouse absent from the predictions is not boosted.     *)
ForecastBoost ==
    (run["ml"].algo = "ml" /\ run["ml"].allocations # <<>>) =>
        LET chosen == warehouseIndex(firstML.warehouse)
        IN  firstML.mlScore =
              scoreOf(availableML(copyOfBatches, firstML, warehouses[chosen]),
                      firstDistance(chosen),
                      amongTopThree(run["ml"].priorityWarehouses, firstML.warehouse))

(* C22: every batch drawn by the predictive allocator outlives, at         *)
(* dispatch, the trip to the requester by more than the two-hour buffer.   *)
ShelfLifeBuffer ==
    run["ml"].algo = "ml" =>
        \A k \in DOMAIN run["ml"].allocations :
            LET r == run["ml"].allocations[k]
            IN  \A i \in DOMAIN r.batches :
                  remainingShelfLifeHours(batches[r.batches[i].batchId], dispatchTime)
                    > estimateTravelHours(r.distance_km) + Hours(minRemainingBufferHours)

(* buildWarehouseRanking: the warehouses within the hard cap, ascending by *)
(* distance (stable), and the topK nearest of them.                        *)
buildWarehouseRanking(ngoNode, list, topK) ==
    LET all == [i \in 1..Len(list) |->
                   [warehouse |-> list[i], distance |-> distanceTo(ngoNode, list[i])]]
        within == SelectSeq(all, LAMBDA x : x.distance >= 0 /\ x.distance <= hardMaxDistanceKm)
        scored == SortAsc(within, [x \in Range(within) |-> x.distance])
    IN  [all |-> scored, top |-> SubSeq(scored, 1, Min(Len(scored), Max(1, topK)))]

(* C23: the warehouse of every record of the predictive allocator is one   *)
(* of the topKWarehouses nearest warehouses within hardMaxDistanceKm of    *)
(* the requester.                                                          *)
BoundedSearch ==
    run["ml"].algo = "ml" =>
        \A k \in DOMAIN run["ml"].allocations :
            LET r == run["ml"].allocations[k]
                ranking == buildWarehouseRanking(ngoNodeOf(requestOf(r)), warehouses,
                                                 topKWarehouses)
            IN  /\ r.distance_km <= hardMaxDistanceKm
                /\ \E x \in Range(ranking.top) : x.warehouse._id = r.warehouse

(* The eligible tier of the first record's warehouse: the strict-eligible  *)
(* batches if there are any, else the relaxed-eligible ones                *)
firstEligible ==
    LET a == analyzeWarehouseOption(warehouses[warehouseIndex(firstML.warehouse)],
                                    firstML.distance_km, firstML.foodType, copyOfBatches)
    IN  IF a.strictEligible # <<>> THEN a.strictEligible ELSE a.relaxedEligible

(* C24: the draws of a record descend in freshness at delivery, and a      *)
(* batch is drawn only after every eligible batch that is strictly fresher *)
(* at delivery has been drawn whole.                                       *)
PredictiveFreshestFirst ==
    (run["ml"].algo = "ml" /\ run["ml"].allocations # <<>>) =>
        \A i \in DOMAIN firstML.batches :
            LET draw == firstML.batches[i]
            IN  /\ \A j \in 1..(i - 1) :
                      freshnessAtDelivery(firstML.batches[j].batchId, firstML.distance_km)
                        >= freshnessAtDelivery(draw.batchId, firstML.distance_km)
                /\ \A b \in Range(firstEligible) :
                      freshnessAtDelivery(b, firstML.distance_km)
                           > freshnessAtDelivery(draw.batchId, firstML.distance_km)
                        => \E j \in 1..(i - 1) :
                              /\ firstML.batches[j].batchId = b
                              /\ firstML.batches[j].quantity = snapshotQty[b]

----------------------------------------------------------------------------
(* Stored freshness *)

(* Values a seed script may have stored as freshnessPct, in whole percent *)
StoredChoices == {0, 10, 50, 100}

(* The decisions of a record: which batches, how much of each *)
decisionsOf(draws) == [i \in 1..Len(draws) |-> <<draws[i].batchId, draws[i].quantity>>]

(* C25: two snapshots that differ only in the stored freshnessPct of their *)
(* batches lead to the same decisions: the first record of the predictive  *)
(* allocator has the warehouse and the draws that the allocator computes   *)
(* from any other stored freshness.  (allocateRegular reads freshnessPct   *)
(* only to copy it into the draw.)                                         *)
StoredFreshnessAdvisory ==
    (run["ml"].algo = "ml" /\ run["ml"].allocations # <<>>) =>
        \A f \in [BatchIds -> StoredChoices] :
            LET docs == [b \in 1..Len(batches) |-> [batches[b] EXCEPT !.freshnessPct = f[b]]]
                best == evaluateWarehousesOf(docs, ngoNodeOf(requestOf(firstML)), firstML,
                                             copyOfBatches, run["ml"].priorityWarehouses,
                                             1, null)
                d == drawFrom(best.bestBatches, initialSt(snapshotQty, <<>>), firstML)
            IN  /\ best # null
                /\ best.bestWarehouse._id = firstML.warehouse
                /\ decisionsOf(d.usedBatches) = decisionsOf(firstML.batches)

----------------------------------------------------------------------------
(* The freshness a seed script computes for a batch, sampled over time.    *)
(* Times are whole hours; `now` is the script's clock, a parameter here.   *)

MaxTime == 12

ShelfLives == {3, 7, 24}

ManufactureDates == {0, 5}

Temperatures == {15, 20, 25, 37}

(* Mutant of clamp: the lower bound is forgotten *)
clampAbove(n, min, max) == jsMin(max, n)

(* const clamp = (n, min, max) => Math.max(min, Math.min(max, n)) *)
clamp(n, min, max) == jsMax(min, jsMin(max, n))

computeFreshnessApprox(shelfLifeHours, manufactureDate, tempC, now) ==
    LET elapsedHours == number(now - manufactureDate, 1)
        tempFactor ==
            jsAdd(number(1, 1),
                  jsMul(jsMax(number(0, 1), jsDiv(number(tempC - 20, 1), number(10, 1))),
                        number(1, 2)))
        freshness ==
            jsSub(number(100, 1),
                  jsMul(jsMul(jsDiv(elapsedHours, number(shelfLifeHours, 1)), number(100, 1)),
                        tempFactor))
    IN  jsRound2(clamp(freshness, number(0, 1), number(100, 1)))

(* The comparison and the transport service are not running *)
comparisonIdle ==
    /\ requests = <<>> /\ batches = <<>> /\ warehouses = <<>> /\ ngos = <<>>
    /\ quantity_kg = <<>>
    /\ run = [c \in Calls |-> idleRun]
    /\ forecast = "none"
    /\ report = null

InitFreshness ==
    /\ comparisonIdle
    /\ transport = null
    /\ reading \in [shelfLifeHours : ShelfLives, manufactureDate : ManufactureDates,
                    tempC : Temperatures, samples : {<<>>}]

(* The freshness of the batch is computed at time t, later than the last   *)
(* sample; the two latest samples are kept.                                *)
Sample(t) ==
    /\ reading # null
    /\ reading.samples # <<>> => t > reading.samples[Len(reading.samples)].at
    /\ reading' = [reading EXCEPT !.samples =
          (IF @ = <<>> THEN <<>> ELSE <<@[Len(@)]>>)
          \o <<[at |-> t,
                freshness |-> computeFreshnessApprox(reading.shelfLifeHours,
                                                     reading.manufactureDate,
                                                     reading.tempC, t)]>>]
    /\ UNCHANGED <<transport, report, snapshotVars, quantity_kg, run, forecast>>

NextFreshness == \E t \in 0..MaxTime : Sample(t)

SpecFreshness == InitFreshness /\ [][NextFreshness]_vars

(* C26: a sample taken later is never fresher than one taken earlier, and  *)
(* every sample lies in [0, 100].                                          *)
FreshnessMonotone ==
    reading # null =>
        /\ \A i \in DOMAIN reading.samples :
              /\ jsLe(number(0, 1), reading.samples[i].freshness)
              /\ jsLe(reading.samples[i].freshness, number(100, 1))
        /\ \A i, j \in DOMAIN reading.samples :
              reading.samples[i].at < reading.samples[j].at
                => jsLe(reading.samples[j].freshness, reading.samples[i].freshness)

(* Two samples, the later strictly less fresh and above the clamp *)
FreshnessMonotoneWitness ==
    /\ reading # null
    /\ Len(reading.samples) = 2
    /\ ~jsLe(reading.samples[1].freshness, reading.samples[2].freshness)
    /\ ~jsLe(reading.samples[2].freshness, number(0, 1))

----------------------------------------------------------------------------
(* The seeded generator of the mock services.  A 32-bit integer is a       *)
(* record of two 16-bit halves [hi, lo]; a string is the sequence of its   *)
(* character codes.                                                        *)

Half == 65536

word(n) == [hi |-> (n \div Half) % Half, lo |-> n % Half]

RECURSIVE xor16(_, _)
xor16(x, y) ==
    IF x = 0 THEN y
    ELSE IF y = 0 THEN x
    ELSE ((x + y) % 2) + 2 * xor16(x \div 2, y \div 2)

RECURSIVE or16(_, _)
or16(x, y) ==
    IF x = 0 THEN y
    ELSE IF y = 0 THEN x
    ELSE (IF x % 2 = 1 \/ y % 2 = 1 THEN 1 ELSE 0) + 2 * or16(x \div 2, y \div 2)

(* a ^ b, a | b, a >>> n for 0 < n < 16, (a + b) | 0 *)
xor(a, b) == [hi |-> xor16(a.hi, b.hi), lo |-> xor16(a.lo, b.lo)]

or(a, b) == [hi |-> or16(a.hi, b.hi), lo |-> or16(a.lo, b.lo)]

shr(a, n) ==
    [hi |-> a.hi \div (2 ^ n),
     lo |-> (a.lo \div (2 ^ n)) + (a.hi % (2 ^ n)) * (Half \div (2 ^ n))]

add(a, b) ==
    [hi |-> (a.hi + b.hi + (a.lo + b.lo) \div Half) % Half, lo |-> (a.lo + b.lo) % Half]

(* The product of two halves, whole and modulo 2^16, through 8-bit steps   *)
mul16(x, y) ==
    LET q == x * (y \div 256)
        first == x * (y % 256) + (q % 256) * 256
    IN  [hi |-> q \div 256 + first \div Half, lo |-> first % Half]

mulLow16(x, y) == mul16(x, y).lo

(* Math.imul: the low 32 bits of the product *)
imul(a, b) ==
    LET p == mul16(a.lo, b.lo)
    IN  [hi |-> (p.hi + mulLow16(a.hi, b.lo) + mulLow16(a.lo, b.hi)) % Half, lo |-> p.lo]

(* for (i..) h = (Math.imul(31, h) + seed.charCodeAt(i)) | 0.  The test   *)
(* on the new h has it computed before the next iteration.                 *)
RECURSIVE hashLoop(_, _, _)
hashLoop(seed, i, h) ==
    IF i > Len(seed) THEN h
    ELSE LET next == add(imul(word(31), h), word(seed[i]))
         IN  IF next.hi < Half /\ next.lo < Half THEN hashLoop(seed, i + 1, next)
             ELSE word(0)

(* seedRandom(seed): the h the returned closure starts from *)
seedRandom(seed) == hashLoop(seed, 1, word(0))

(* One call of the closure: the new h and the numerator of the returned    *)
(* value, (h ^ (h >>> 14)) >>> 0, over 4294967296                          *)
rng(h) ==
    LET h1 == imul(xor(h, shr(h, 15)), or(h, word(1)))
        h2 == xor(h1, add(h1, imul(xor(h1, shr(h1, 7)), or(h1, word(61)))))
    IN  [h |-> h2, value |-> xor(h2, shr(h2, 14))]

(* min + rng() * (max - min), min and max in tenths.  The result is the    *)
(* number (whole + frac / 2^32) / 10.                                      *)
seededRandomInRange(seed, min, max) ==
    LET u == rng(seedRandom(seed)).value
        lo == (max - min) * u.lo
        hi == (max - min) * u.hi + lo \div Half
    IN  [whole |-> min + hi \div Half, frac |-> [hi |-> hi % Half, lo |-> lo % Half]]

(* floor(m * factor * 10) for an integer m >= 0 *)
scaleBy(m, factor) ==
    m * factor.whole + (m * factor.frac.hi + (m * factor.frac.lo) \div Half) \div Half

----------------------------------------------------------------------------
(* The mock transport service: GET /api/transport/time.  Times are whole   *)
(* hours since 2025-01-01T00:00Z, the server's time zone is UTC; the       *)
(* endpoints lie on one meridian.  eta_iso is not modelled.                *)

MaxClock == 2

ClockStart == 19

transportAvgSpeedKmh == 60

nightFrom == 20

nightUntil == 6

slowMin == 12

slowMax == 14

KmPerDegree == 111

(* Strings of the query: decimal digits, or a letter *)
digit(d) == 48 + d

isDigit(c) == c >= 48 /\ c <= 57

RECURSIVE parseDigits(_, _, _)
parseDigits(s, i, n) ==
    IF i > Len(s) \/ ~isDigit(s[i]) THEN n
    ELSE parseDigits(s, i + 1, 10 * n + (s[i] - 48))

(* parseFloat of a string without sign or point: the leading digits, NaN   *)
(* when there is none                                                      *)
parseFloat(s) ==
    IF s = <<>> \/ ~isDigit(s[1]) THEN NaN ELSE number(parseDigits(s, 1, 0), 1)

(* `${n}` for a whole number n >= 0 *)
RECURSIVE toString(_)
toString(n) ==
    IF n < 10 THEN <<digit(n)>> ELSE toString(n \div 10) \o <<digit(n % 10)>>

pad2(n) == <<digit(n \div 10), digit(n % 10)>>

(* Date.prototype.toISOString: 2025-01-DDTHH:00:00.000Z *)
toISOString(t) ==
    <<50, 48, 50, 53, 45, 48, 49, 45>> \o pad2(t \div 24 + 1) \o <<84>> \o pad2(t % 24)
    \o <<58, 48, 48, 58, 48, 48, 46, 48, 48, 48, 90>>

getHours(t) == t % 24

(* new Date(start_iso): the time, or an invalid date *)
StartTimes == {5, 6, 19, 20}

StartIsos ==
    {[given |-> FALSE, valid |-> FALSE, time |-> 0], [given |-> TRUE, valid |-> FALSE, time |-> 0]}
    \cup {[given |-> TRUE, valid |-> TRUE, time |-> t] : t \in StartTimes}

TransportQueries ==
    {[fromLat |-> <<digit(0)>>, fromLon |-> <<digit(7), digit(7)>>, toLat |-> lat,
      toLon |-> <<digit(7), digit(7)>>, start_iso |-> iso] :
        lat \in {<<digit(2)>>, <<digit(3)>>, <<digit(0), digit(3)>>},
        iso \in StartIsos}
    \cup {[fromLat |-> <<>>, fromLon |-> <<digit(7), digit(7)>>, toLat |-> <<digit(1)>>,
           toLon |-> <<digit(7), digit(7)>>,
           start_iso |-> [given |-> FALSE, valid |-> FALSE, time |-> 0]],
          [fromLat |-> <<120>>, fromLon |-> <<digit(7), digit(7)>>, toLat |-> <<digit(1)>>,
           toLon |-> <<digit(7), digit(7)>>,
           start_iso |-> [given |-> FALSE, valid |-> FALSE, time |-> 0]]}

(* haversineDistanceKm(from, to) of two points of one meridian *)
routeDistanceKm(from, to) ==
    haversineDistanceKm(KmPerDegree * from.lat.num, KmPerDegree * to.lat.num)

(* `${from.lat},${from.lon}-${to.lat},${to.lon}-${startTime.toISOString()}` *)
seedOf(from, to, startTime) ==
    toString(from.lat.num) \o <<44>> \o toString(from.lon.num) \o <<45>>
    \o toString(to.lat.num) \o <<44>> \o toString(to.lon.num) \o <<45>>
    \o toISOString(startTime)

(* Mutant of isNight: 8 pm itself counts as day *)
isNightAfterEight(startHour) == startHour > nightFrom \/ startHour < nightUntil

(* startHour >= 20 || startHour < 6 *)
isNight(startHour) == startHour >= nightFrom \/ startHour < nightUntil

badRequest(error) == [status |-> 400, error |-> error]

(* The handler from the distance on; the result carries the response and   *)
(* the unrounded nightSlowFactor.                                          *)
travelResponse(from, to, startTime) ==
    LET distanceKm == routeDistanceKm(from, to)
        baseHours == number(distanceKm, transportAvgSpeedKmh)
        breaksCount == jsDiv(baseHours, number(breakIntervalHours, 1)).num
                         \div jsDiv(baseHours, number(breakIntervalHours, 1)).den
        totalBreakHours == number(breaksCount, 2)
        startHour == getHours(startTime)
        nightSlowFactor == IF isNight(startHour)
                           THEN seededRandomInRange(seedOf(from, to, startTime),
                                                    slowMin, slowMax)
                           ELSE [whole |-> 10, frac |-> word(0)]
        baseMinutes == jsMul(baseHours, number(60, 1))
        breakMinutes == jsMul(totalBreakHours, number(60, 1))
        travelMinutes ==
            (scaleBy(2 * baseMinutes.num, nightSlowFactor) + 10 * baseMinutes.den
               + 20 * baseMinutes.den * breakMinutes.num)
            \div (20 * baseMinutes.den)
    IN  [nightSlowFactor |-> nightSlowFactor,
         response |->
           [status |-> 200,
            distance_km |-> jsRound2(number(distanceKm, 1)),
            travel_time_minutes |-> travelMinutes,
            metadata |->
              [base_hours |-> jsRound2(baseHours),
               breaks_count |-> breaksCount,
               break_hours |-> totalBreakHours,
               night_slow_factor |-> number((scaleBy(20, nightSlowFactor) + 1) \div 2, 100),
               avg_speed_kmh |-> transportAvgSpeedKmh]]]

(* calculateTransportTime(req, res) at server time now *)
calculateTransportTime(query, now) ==
    IF query.fromLat = <<>> \/ query.fromLon = <<>> \/ query.toLat = <<>> \/ query.toLon = <<>>
    THEN [startTime |-> now, nightSlowFactor |-> null,
          response |-> badRequest("Missing required parameters")]
    ELSE LET from == [lat |-> parseFloat(query.fromLat), lon |-> parseFloat(query.fromLon)]
             to == [lat |-> parseFloat(query.toLat), lon |-> parseFloat(query.toLon)]
             startTime == IF query.start_iso.given THEN query.start_iso.time ELSE now
         IN  IF ~isNumber(from.lat) \/ ~isNumber(from.lon)
                \/ ~isNumber(to.lat) \/ ~isNumber(to.lon)
             THEN [startTime |-> now, nightSlowFactor |-> null,
                   response |-> badRequest("Invalid coordinate values")]
             ELSE IF query.start_iso.given /\ ~query.start_iso.valid
             THEN [startTime |-> now, nightSlowFactor |-> null,
                   response |-> badRequest("Invalid start_iso format")]
             ELSE [startTime |-> startTime] @@ travelResponse(from, to, startTime)

InitTransport ==
    /\ comparisonIdle
    /\ reading = null
    /\ transport = [clock |-> ClockStart, answers |-> <<>>]

(* An hour passes on the server *)
Tick ==
    /\ transport # null
    /\ transport.clock < ClockStart + MaxClock
    /\ transport' = [transport EXCEPT !.clock = @ + 1]
    /\ UNCHANGED <<reading, report, snapshotVars, quantity_kg, run, forecast>>

(* A request is answered; the two latest answers are kept *)
CalculateTransportTime(query) ==
    /\ transport # null
    /\ transport' = [transport EXCEPT !.answers =
          (IF @ = <<>> THEN <<>> ELSE <<@[Len(@)]>>)
          \o <<[query |-> query] @@ calculateTransportTime(query, transport.clock)>>]
    /\ UNCHANGED <<reading, report, snapshotVars, quantity_kg, run, forecast>>

NextTransport ==
    \/ Tick
    \/ \E query \in TransportQueries : CalculateTransportTime(query)

SpecTransport == InitTransport /\ [][NextTransport]_vars

(* The answers with a travel time, and the endpoints of an answer *)
travelAnswers ==
    IF transport = null THEN {}
    ELSE {transport.answers[i] : i \in {j \in DOMAIN transport.answers :
                                           transport.answers[j].response.status = 200}}

endpointsOf(a) ==
    <<parseFloat(a.query.fromLat), parseFloat(a.query.fromLon),
      parseFloat(a.query.toLat), parseFloat(a.query.toLon)>>

(* factor * 10 lies in [lower, upper] *)
factorWithin(factor, lower, upper) ==
    /\ factor.whole >= lower
    /\ factor.whole < upper \/ (factor.whole = upper /\ factor.frac = word(0))

(* C27: the factor is exactly 1.0 for a start hour in [6, 20) and lies in  *)
(* [1.2, 1.4] for a start hour in [20, 6); the breaks are half an hour per *)
(* full four hours of distance / 60, whatever the factor; answers to the   *)
(* same endpoints and start time have the same travel time.                *)
TransportNightFactor ==
    /\ \A a \in travelAnswers :
          LET hour == a.startTime % 24
              kilometres == a.response.distance_km.num \div a.response.distance_km.den
          IN  /\ (hour >= 6 /\ hour < 20) => a.nightSlowFactor = [whole |-> 10, frac |-> word(0)]
              /\ (hour >= 20 \/ hour < 6) => factorWithin(a.nightSlowFactor, 12, 14)
              /\ a.response.metadata.breaks_count = kilometres \div (60 * 4)
              /\ a.response.metadata.break_hours
                   = number(a.response.metadata.breaks_count, 2)
    /\ \A a, b \in travelAnswers :
          (endpointsOf(a) = endpointsOf(b) /\ a.startTime = b.startTime)
            => a.response.travel_time_minutes = b.response.travel_time_minutes

(* Two different queries for the same endpoints and start time, at night,  *)
(* with a break on the way and a factor strictly above 1.2                 *)
TransportNightFactorWitness ==
    /\ transport # null
    /\ Len(transport.answers) = 2
    /\ transport.answers[1].query # transport.answers[2].query
    /\ \A i \in 1..2 :
          /\ transport.answers[i].response.status = 200
          /\ transport.answers[i].startTime % 24 = 20
          /\ transport.answers[i].response.metadata.breaks_count > 0
          /\ transport.answers[i].nightSlowFactor.frac # word(0)
    /\ endpointsOf(transport.answers[1]) = endpointsOf(transport.answers[2])
    /\ transport.answers[1].startTime = transport.answers[2].startTime

----------------------------------------------------------------------------
(* Draws, their batches, and the empty warehouse list *)

(* C28: every draw of every record of either allocator has quantity > 0,   *)
(* also when the snapshot holds a stored batch of 0 kg.                    *)
DrawsPositive ==
    \A c \in Calls :
        \A k \in DOMAIN run[c].allocations :
            \A i \in DOMAIN run[c].allocations[k].batches :
                run[c].allocations[k].batches[i].quantity > 0

(* C29: every draw of a record of either allocator is from a batch of the  *)
(* record's food type that is stored at the record's warehouse; so no      *)
(* record draws at two warehouses.                                         *)
DrawsFromRecordWarehouse ==
    \A c \in Calls :
        \A k \in DOMAIN run[c].allocations :
            LET r == run[c].allocations[k]
            IN  \A i \in DOMAIN r.batches :
                  /\ batches[r.batches[i].batchId].foodType = r.foodType
                  /\ batches[r.batches[i].batchId].currentNode = r.warehouse
                  /\ batches[r.batches[i].batchId].status = "stored"

(* A record of the predictive allocator that draws and stays short while   *)
(* rice that is not stored lies at its warehouse and stored rice at the    *)
(* other warehouse                                                         *)
DrawsFromRecordWarehouseWitness ==
    /\ run["ml"].algo = "ml"
    /\ run["ml"].allocations # <<>>
    /\ firstML.batches # <<>>
    /\ firstML.allocated_kg < firstML.required_kg
    /\ \E b \in BatchIds :
          /\ batches[b].foodType = firstML.foodType
          /\ batches[b].currentNode = firstML.warehouse
          /\ batches[b].status # "stored"
    /\ \E w \in DOMAIN warehouses : warehouses[w]._id # firstML.warehouse

(* C30: with no warehouse, a run of allocateRegular skips every request,   *)
(* also those of a known requester: each iteration of the request loop     *)
(* ends in `continue`, no record is pushed and no batch is touched.        *)
EmptyWarehouseList ==
    warehouses = <<>> =>
        \A c \in Calls :
            run[c].algo = "regular" =>
                /\ run[c].allocations = <<>>
                /\ quantity_kg = snapshotQty
                /\ run[c].unusedBatches = copyOfBatches
                /\ (run[c].pc = "loop" /\ run[c].ri <= Len(requests))
                     => regularSkips(requests[run[c].ri])
                /\ run[c].ri <= Len(requests) + 1

(* The run has returned, a request of a known requester among those it     *)
(* skipped, with rice in the inventory                                     *)
EmptyWarehouseListWitness ==
    /\ warehouses = <<>>
    /\ run["regular"].pc = "done"
    /\ \A i \in DOMAIN requests : resolved(requests[i])
    /\ \A b \in BatchIds : batches[b].foodType = "rice" /\ batches[b].quantity_kg > 0

====
